---------------------------- MODULE Spec2Model ----------------------------
(***************************************************************************)
(* A model of the Python binding of unhwp                                  *)
(* (bindings/python/src/unhwp/unhwp.py and _native.py).                    *)
(*                                                                         *)
(* The binding code is modelled method by method.  Every method is an      *)
(* operator that, given the object and what the native engine answers,     *)
(* yields the new object, the outcome (a return value or a raised          *)
(* exception) and the log of native calls it dispatched.  The engine       *)
(* behind native.lib is the external Rust library: it is modelled by its   *)
(* contract, that is by the answers it can give, and by the bookkeeping    *)
(* of what has been handed out and freed.  Module attributes of _native    *)
(* (constants) are modelled by what _native.py defines.                    *)
(***************************************************************************)
EXTENDS Integers, Sequences, FiniteSets, TLC

(***************************************************************************)
(* Bounds of the model.                                                    *)
(***************************************************************************)
MaxResults == 2
MaxRes == 2
MaxGens == 1
MaxInstances == 2

(***************************************************************************)
(* Python values.                                                          *)
(***************************************************************************)
\* Python's None and C's NULL: both are falsy, a handle or pointer is > 0.
None == 0

\* Outcomes of a call: a raised exception or a returned value.
Raise(e) == [kind |-> "raise", exc |-> e, str |-> "", num |-> 0, list |-> <<>>]
RetNone == [kind |-> "none", exc |-> "", str |-> "", num |-> 0, list |-> <<>>]
RetStr(s) == [kind |-> "str", exc |-> "", str |-> s, num |-> 0, list |-> <<>>]
RetInt(n) == [kind |-> "int", exc |-> "", str |-> "", num |-> n, list |-> <<>>]
RetBool(b) == [kind |-> "bool", exc |-> "", str |-> "", num |-> IF b THEN 1 ELSE 0, list |-> <<>>]
RetList(l) == [kind |-> "list", exc |-> "", str |-> "", num |-> 0, list |-> l]
RetObj(i) == [kind |-> "obj", exc |-> "", str |-> "", num |-> i, list |-> <<>>]
RetGen(g) == [kind |-> "gen", exc |-> "", str |-> "", num |-> g, list |-> <<>>]
\* An Image: its name is the resource id, its data the resource's bytes.
RetImage(rid) == [kind |-> "image", exc |-> "", str |-> "", num |-> rid, list |-> <<>>]
\* The process died (a fault inside the engine).
Crash == [kind |-> "crash", exc |-> "", str |-> "", num |-> 0, list |-> <<>>]

\* One dispatched native call: the function, its handle argument, its other
\* argument (flags, pointer to free, resource index) and what it returned.
NativeCall(fn, h, arg, ret) == [fn |-> fn, h |-> h, arg |-> arg, ret |-> ret]

(***************************************************************************)
(* The native module's attributes (_native.py).                            *)
(***************************************************************************)
UNHWP_OK == 0
UNHWP_ERR_FILE_NOT_FOUND == 1
UNHWP_ERR_PARSE == 2
UNHWP_ERR_RENDER == 3
UNHWP_ERR_INVALID_ARG == 4
UNHWP_ERR_UNSUPPORTED == 5
UNHWP_ERR_UNKNOWN == 99
FORMAT_UNKNOWN == 0
FORMAT_HWP5 == 1
FORMAT_HWPX == 2
FORMAT_HWP3 == 3

\* The integer constants that module _native defines, by name.
native ==
  [ UNHWP_OK |-> UNHWP_OK,
    UNHWP_ERR_FILE_NOT_FOUND |-> UNHWP_ERR_FILE_NOT_FOUND,
    UNHWP_ERR_PARSE |-> UNHWP_ERR_PARSE,
    UNHWP_ERR_RENDER |-> UNHWP_ERR_RENDER,
    UNHWP_ERR_INVALID_ARG |-> UNHWP_ERR_INVALID_ARG,
    UNHWP_ERR_UNSUPPORTED |-> UNHWP_ERR_UNSUPPORTED,
    UNHWP_ERR_UNKNOWN |-> UNHWP_ERR_UNKNOWN,
    FORMAT_UNKNOWN |-> FORMAT_UNKNOWN,
    FORMAT_HWP5 |-> FORMAT_HWP5,
    FORMAT_HWPX |-> FORMAT_HWPX,
    FORMAT_HWP3 |-> FORMAT_HWP3 ]

\* native.<name>: reading an attribute the module does not define raises
\* AttributeError.
HasAttr(name) == name \in DOMAIN native

(***************************************************************************)
(* RenderOptions                                                           *)
(***************************************************************************)
Prefixes == {"", "img/", "assets/"}
TableFallbacks == {0, 1, 2}

\* The dataclass: every combination of field values can be constructed.
RenderOptions ==
  [ include_frontmatter : BOOLEAN,
    image_path_prefix : Prefixes,
    table_fallback : TableFallbacks,
    preserve_line_breaks : BOOLEAN,
    escape_special_chars : BOOLEAN ]

\* RenderOptions(): the field defaults.
RenderOptionsDefault ==
  [ include_frontmatter |-> FALSE,
    image_path_prefix |-> "",
    table_fallback |-> 0,
    preserve_line_breaks |-> FALSE,
    escape_special_chars |-> TRUE ]

\* The flag constants _to_flags reads, in the order it reads them.
FlagNames(self) ==
  (IF self.include_frontmatter THEN <<"UNHWP_FLAG_FRONTMATTER">> ELSE <<>>)
  \o (IF self.escape_special_chars THEN <<"UNHWP_FLAG_ESCAPE_SPECIAL">> ELSE <<>>)
  \o (IF self.preserve_line_breaks THEN <<"UNHWP_FLAG_PARAGRAPH_SPACING">> ELSE <<>>)

\* flags |= native.X for integers with disjoint or equal bits, bit by bit.
RECURSIVE BitOr(_, _)
BitOr(a, b) ==
  IF a = 0 THEN b
  ELSE IF b = 0 THEN a
  ELSE (IF (a % 2 = 1) \/ (b % 2 = 1) THEN 1 ELSE 0) + 2 * BitOr(a \div 2, b \div 2)

RECURSIVE OrAll(_, _)
OrAll(names, flags) ==
  IF names = <<>> THEN flags
  ELSE OrAll(Tail(names), BitOr(flags, native[Head(names)]))

\* RenderOptions._to_flags: the outcome is the bitmask, or AttributeError when
\* a flag constant it reads is no attribute of the native module.
_to_flags(self) ==
  IF \E k \in 1..Len(FlagNames(self)) : ~HasAttr(FlagNames(self)[k])
  THEN Raise("AttributeError")
  ELSE RetInt(OrAll(FlagNames(self), 0))

(***************************************************************************)
(* ParseResult                                                             *)
(***************************************************************************)
\* ParseResult.__init__
ParseResult__init__(handle, flags) ==
  [_handle |-> handle, _flags |-> flags, _closed |-> FALSE]

\* close with the two assignments after the free left out.
close_KeepsHandle(self) ==
  IF ~self._closed /\ self._handle # None
  THEN [ self |-> self, out |-> RetNone,
         native |-> << NativeCall("unhwp_free_document", self._handle, 0, 0) >> ]
  ELSE [ self |-> self, out |-> RetNone, native |-> <<>> ]

\* ParseResult.close: the object afterwards and the native calls dispatched.
close(self) ==
  IF ~self._closed /\ self._handle # None
  THEN [ self |-> [self EXCEPT !._handle = None, !._closed = TRUE],
         out |-> RetNone,
         native |-> << NativeCall("unhwp_free_document", self._handle, 0, 0) >> ]
  ELSE [ self |-> self, out |-> RetNone, native |-> <<>> ]

\* ParseResult.__exit__
__exit__(self) == close(self)

\* ParseResult.__del__
__del__(self) == close(self)

\* ParseResult.__enter__
__enter__(self) == [ self |-> self, out |-> RetNone, native |-> <<>> ]

\* ParseResult._ensure_open: TRUE when it raises ValueError.
_ensure_open(self) == self._closed

(***************************************************************************)
(* What the engine answers.                                                *)
(***************************************************************************)
\* What extracting one resource gives: no buffer, a buffer with data, or a
\* buffer reported with length 0.
ResourceKinds == {"null", "data", "empty"}

RECURSIVE SeqsUpTo(_, _)
SeqsUpTo(S, n) ==
  IF n = 0 THEN {<<>>}
  ELSE LET shorter == SeqsUpTo(S, n - 1)
       IN  shorter \cup {Append(s, x) : s \in {t \in shorter : Len(t) = n - 1}, x \in S}

\* The resources a parsed document can hold: resource k has id k.
Documents == SeqsUpTo(ResourceKinds, MaxRes)

\* What is at a path, or in a byte string, handed to the engine.
PathKinds == {"missing", "malformed", "valid"}
DataKinds == {"malformed", "valid"}

\* The bytes behind a char pointer the engine returns: text, the empty
\* string, or bytes that are no UTF-8.
InvalidUtf8 == "\\xff"
Memory == {"text", "", InvalidUtf8}

\* A returned char pointer: NULL, or pointer 1 to some bytes.
StringReturns == {[ptr |-> None, mem |-> ""]} \cup {[ptr |-> 1, mem |-> m] : m \in Memory}

\* A returned count: negative on failure.
CountReturns == {-1, 0, 1, 2}

\* unhwp_get_resource_ids: NULL, or pointer 1 to the JSON list of the ids,
\* to an empty string, or to bytes that are no UTF-8.
IdsReturns ==
  {[ptr |-> None, mem |-> ""]} \cup {[ptr |-> 1, mem |-> m] : m \in {"ids", "", InvalidUtf8}}

\* unhwp_get_resource_data for resource k of a document: the pointer (k + 1,
\* as pointer 1 was the id list) and the length written to out_len.
ResourceData(doc, k) ==
  CASE doc[k] = "null" -> [ptr |-> None, len |-> 0]
    [] doc[k] = "data" -> [ptr |-> k + 1, len |-> 1]
    [] OTHER -> [ptr |-> k + 1, len |-> 0]

(***************************************************************************)
(* ParseResult: the accessors                                              *)
(***************************************************************************)
\* bytes.decode("utf-8")
decode(mem) == IF mem = InvalidUtf8 THEN Raise("UnicodeDecodeError") ELSE RetStr(mem)

\* _ptr_to_string
_ptr_to_string(ret) == IF ret.ptr = None THEN RetNone ELSE decode(ret.mem)

\* x or default, for x a str or None
Or(x, default) ==
  IF x.kind = "none" \/ (x.kind = "str" /\ x.str = "") THEN RetStr(default) ELSE x

\* _get_last_error
_get_last_error == << NativeCall("unhwp_last_error", 0, 0, 0) >>

Closed(self) == [ self |-> self, out |-> Raise("ValueError"), native |-> <<>> ]

\* The shared body dropping the handle once a string was rendered.
RenderedString_Consumes(self, c, ret) ==
  IF ret.ptr = None
  THEN [ self |-> self, out |-> Raise("RenderError"), native |-> <<c>> \o _get_last_error ]
  ELSE [ self |-> [self EXCEPT !._handle = None],
         out |-> Or(_ptr_to_string(ret), ""),
         native |-> << c, NativeCall("unhwp_free_string", 0, ret.ptr, 0) >> ]

\* The body shared by markdown, text, plain_text and json after
\* _ensure_open: the native call c that returned ret, then the conversion
\* under try/finally.
RenderedString(self, c, ret) ==
  IF ret.ptr = None
  THEN [ self |-> self, out |-> Raise("RenderError"), native |-> <<c>> \o _get_last_error ]
  ELSE [ self |-> self, out |-> Or(_ptr_to_string(ret), ""),
         native |-> << c, NativeCall("unhwp_free_string", 0, ret.ptr, 0) >> ]

\* ParseResult.markdown
markdown(self, ret) ==
  IF _ensure_open(self) THEN Closed(self)
  ELSE RenderedString(self, NativeCall("unhwp_to_markdown", self._handle, self._flags, ret.ptr), ret)

\* ParseResult.text
text(self, ret) ==
  IF _ensure_open(self) THEN Closed(self)
  ELSE RenderedString(self, NativeCall("unhwp_to_text", self._handle, 0, ret.ptr), ret)

\* ParseResult.plain_text
plain_text(self, ret) ==
  IF _ensure_open(self) THEN Closed(self)
  ELSE RenderedString(self, NativeCall("unhwp_plain_text", self._handle, 0, ret.ptr), ret)

\* ParseResult.json: native.UNHWP_JSON_PRETTY is read before the call.
json(self, ret) ==
  IF _ensure_open(self) THEN Closed(self)
  ELSE IF ~HasAttr("UNHWP_JSON_PRETTY")
  THEN [ self |-> self, out |-> Raise("AttributeError"), native |-> <<>> ]
  ELSE RenderedString(self,
         NativeCall("unhwp_to_json", self._handle, native["UNHWP_JSON_PRETTY"], ret.ptr), ret)

\* ParseResult.section_count
section_count(self, count) ==
  IF _ensure_open(self) THEN Closed(self)
  ELSE LET c == NativeCall("unhwp_section_count", self._handle, 0, count)
       IN  IF count < 0
           THEN [ self |-> self, out |-> Raise("UnhwpError"), native |-> <<c>> \o _get_last_error ]
           ELSE [ self |-> self, out |-> RetInt(count), native |-> <<c>> ]

\* ParseResult.paragraph_count
paragraph_count(self, count) ==
  IF _ensure_open(self) THEN Closed(self) ELSE section_count(self, count)

\* ParseResult.is_distribution
is_distribution(self) == [ self |-> self, out |-> RetBool(FALSE), native |-> <<>> ]

\* ParseResult.image_count
image_count(self, count) ==
  IF _ensure_open(self) THEN Closed(self)
  ELSE LET c == NativeCall("unhwp_resource_count", self._handle, 0, count)
       IN  IF count < 0
           THEN [ self |-> self, out |-> Raise("UnhwpError"), native |-> <<c>> \o _get_last_error ]
           ELSE [ self |-> self, out |-> RetInt(count), native |-> <<c>> ]

\* The body shared by title and author after _ensure_open.
OptionalString(self, c, ret) ==
  IF ret.ptr = None
  THEN [ self |-> self, out |-> RetNone, native |-> <<c>> ]
  ELSE [ self |-> self, out |-> _ptr_to_string(ret),
         native |-> << c, NativeCall("unhwp_free_string", 0, ret.ptr, 0) >> ]

\* ParseResult.title
title(self, ret) ==
  IF _ensure_open(self) THEN Closed(self)
  ELSE OptionalString(self, NativeCall("unhwp_get_title", self._handle, 0, ret.ptr), ret)

\* ParseResult.author
author(self, ret) ==
  IF _ensure_open(self) THEN Closed(self)
  ELSE OptionalString(self, NativeCall("unhwp_get_author", self._handle, 0, ret.ptr), ret)

\* json.loads of the decoded id list: "[]" is the empty list, the engine's
\* JSON text is the list ids.
json_loads(ids_json, ids) == IF ids_json = "[]" THEN <<>> ELSE ids

\* One round of the loop over resource_ids, in images and in iter_images:
\* the call for resource rid answered d, the buffer copied and freed when
\* it is non-null and longer than 0.
ResourceStep(handle, rid, d) ==
  LET c == NativeCall("unhwp_get_resource_data", handle, rid, d.ptr)
  IN  IF d.ptr # None /\ d.len > 0
      THEN [ taken |-> TRUE, native |-> << c, NativeCall("unhwp_free_bytes", 0, d.ptr, 0) >> ]
      ELSE [ taken |-> FALSE, native |-> <<c>> ]

\* The loop of images giving up at the first resource that yields no data.
RECURSIVE ImagesLoop_Abort(_, _, _, _)
ImagesLoop_Abort(handle, rest, data, acc) ==
  IF rest = <<>> THEN acc
  ELSE LET st == ResourceStep(handle, Head(rest), data[Head(rest)])
       IN  IF ~st.taken THEN [acc EXCEPT !.native = @ \o st.native]
           ELSE ImagesLoop_Abort(handle, Tail(rest), data,
                  [ images |-> Append(acc.images, Head(rest)),
                    native |-> acc.native \o st.native ])

\* for resource_id in resource_ids (images): the names appended and the
\* native calls made.
RECURSIVE ImagesLoop(_, _, _, _)
ImagesLoop(handle, rest, data, acc) ==
  IF rest = <<>> THEN acc
  ELSE LET st == ResourceStep(handle, Head(rest), data[Head(rest)])
       IN  ImagesLoop(handle, Tail(rest), data,
             [ images |-> IF st.taken THEN Append(acc.images, Head(rest)) ELSE acc.images,
               native |-> acc.native \o st.native ])

\* ParseResult.images: ret answers unhwp_get_resource_ids, ids is the list
\* its JSON text holds, data[k] answers unhwp_get_resource_data for id k.
images(self, ret, ids, data) ==
  IF _ensure_open(self) THEN Closed(self)
  ELSE LET c == NativeCall("unhwp_get_resource_ids", self._handle, 0, ret.ptr)
           free == NativeCall("unhwp_free_string", 0, ret.ptr, 0)
           ids_json == Or(_ptr_to_string(ret), "[]")
       IN  IF ret.ptr = None
           THEN [ self |-> self, out |-> RetList(<<>>), native |-> <<c>> ]
           ELSE IF ids_json.kind = "raise"
           THEN [ self |-> self, out |-> ids_json, native |-> <<c, free>> ]
           ELSE LET loop == ImagesLoop(self._handle, json_loads(ids_json.str, ids), data,
                                       [images |-> <<>>, native |-> <<c, free>>])
                IN  [ self |-> self, out |-> RetList(loop.images), native |-> loop.native ]

\* A generator object made by iter_images: the ParseResult it iterates, where
\* its frame stands ("start": nothing has run, "loop": suspended at the
\* yield, "done": finished), the list resource_ids and the position k of the
\* loop in it.  yielded is the history of what it has yielded.
Generator(obj) ==
  [obj |-> obj, pc |-> "start", resource_ids |-> <<>>, k |-> 0, yielded |-> <<>>]

Finished(g, out, nat) == [ gen |-> [g EXCEPT !.pc = "done"], out |-> out, native |-> nat ]

\* for resource_id in resource_ids (iter_images): from position k to the
\* next yield, or to the end of the list.  self._handle is read in every
\* round.
RECURSIVE IterLoop(_, _, _, _)
IterLoop(self, g, data, nat) ==
  IF g.k > Len(g.resource_ids) THEN Finished(g, Raise("StopIteration"), nat)
  ELSE LET rid == g.resource_ids[g.k]
           st == ResourceStep(self._handle, rid, data[rid])
           g2 == [g EXCEPT !.k = @ + 1]
       IN  IF st.taken
           THEN [ gen |-> [g2 EXCEPT !.pc = "loop", !.yielded = Append(@, rid)],
                  out |-> RetImage(rid), native |-> nat \o st.native ]
           ELSE IterLoop(self, g2, data, nat \o st.native)

\* next() on a generator of ParseResult.iter_images.
iter_images(self, g, ret, ids, data) ==
  IF g.pc = "done" THEN Finished(g, Raise("StopIteration"), <<>>)
  ELSE IF g.pc = "loop" THEN IterLoop(self, g, data, <<>>)
  ELSE IF _ensure_open(self) THEN Finished(g, Raise("ValueError"), <<>>)
  ELSE LET c == NativeCall("unhwp_get_resource_ids", self._handle, 0, ret.ptr)
           free == NativeCall("unhwp_free_string", 0, ret.ptr, 0)
           ids_json == Or(_ptr_to_string(ret), "[]")
       IN  IF ret.ptr = None THEN Finished(g, Raise("StopIteration"), <<c>>)
           ELSE IF ids_json.kind = "raise" THEN Finished(g, ids_json, <<c, free>>)
           ELSE IterLoop(self, [g EXCEPT !.resource_ids = json_loads(ids_json.str, ids), !.k = 1],
                         data, <<c, free>>)

(***************************************************************************)
(* CleanupOptions                                                          *)
(***************************************************************************)
PresetInts == -1..3

\* An argument of a call: <<>> when it is left out, <<v>> when v is passed.
Opt(S) == {<<>>} \cup {<<v>> : v \in S}
Arg(a, default) == IF a = <<>> THEN default ELSE a[1]

\* The keyword arguments CleanupOptions can be constructed with.
CleanupKwargs ==
  [ enabled : Opt(BOOLEAN), preset : Opt(PresetInts),
    detect_mojibake : Opt(BOOLEAN), preserve_frontmatter : Opt(BOOLEAN) ]

\* CleanupOptions.__init__ as the dataclass generates it: each field is the
\* argument, or the field's default.
CleanupOptions__init__(kw) ==
  [ enabled |-> Arg(kw.enabled, TRUE),
    preset |-> Arg(kw.preset, 1),
    detect_mojibake |-> Arg(kw.detect_mojibake, TRUE),
    preserve_frontmatter |-> Arg(kw.preserve_frontmatter, TRUE) ]

Kw(enabled, preset) ==
  [enabled |-> enabled, preset |-> preset, detect_mojibake |-> <<>>, preserve_frontmatter |-> <<>>]

\* CleanupOptions.minimal
minimal == CleanupOptions__init__(Kw(<<TRUE>>, <<0>>))

\* CleanupOptions.default
default == CleanupOptions__init__(Kw(<<TRUE>>, <<1>>))

\* CleanupOptions.aggressive
aggressive == CleanupOptions__init__(Kw(<<TRUE>>, <<2>>))

\* disabled without enabled=False.
disabled_Default == CleanupOptions__init__(Kw(<<>>, <<>>))

\* CleanupOptions.disabled
disabled == CleanupOptions__init__(Kw(<<FALSE>>, <<>>))

\* Every CleanupOptions instance the constructor can make.
CleanupOptions == {CleanupOptions__init__(kw) : kw \in CleanupKwargs}

(***************************************************************************)
(* The public functions                                                    *)
(***************************************************************************)
\* unhwp_parse_file / unhwp_parse_bytes: a new handle for valid input, NULL
\* otherwise.
EngineParse(eng, kind) == IF kind = "valid" THEN Len(eng) + 1 ELSE None

\* parse without the check of the handle.
parse_WrapsNull(fn, flags, handle) ==
  IF flags.kind = "raise" THEN [ out |-> flags, new |-> <<>>, native |-> <<>> ]
  ELSE [ out |-> RetNone, new |-> << ParseResult__init__(handle, flags.num) >>,
         native |-> << NativeCall(fn, 0, 0, handle) >> ]

\* parse / parse_bytes: flags is the outcome of _to_flags, handle what the
\* engine call fn returned.  new holds the ParseResult made, if any.
parse(fn, flags, handle) ==
  IF flags.kind = "raise" THEN [ out |-> flags, new |-> <<>>, native |-> <<>> ]
  ELSE LET c == NativeCall(fn, 0, 0, handle)
       IN  IF handle = None
           THEN [ out |-> Raise("ParseError"), new |-> <<>>, native |-> <<c>> \o _get_last_error ]
           ELSE [ out |-> RetNone, new |-> << ParseResult__init__(handle, flags.num) >>,
                  native |-> <<c>> ]

\* The with statement replaced by a release made on the failure of parse too.
WithParse_ReleasesAnyway(p, acc) ==
  IF p.new = <<>>
  THEN [ out |-> p.out, new |-> <<>>,
         native |-> p.native \o << NativeCall("unhwp_free_document", None, 0, 0) >> ]
  ELSE LET x == __exit__(acc.self)
       IN  [ out |-> acc.out, new |-> <<x.self>>, native |-> p.native \o acc.native \o x.native ]

\* with parse(path) as result: return <accessor>, for to_markdown (markdown)
\* and extract_text (text): p is what parse gave, acc what the accessor gives
\* on the new object; __exit__ runs whether the accessor returned or raised.
WithParse(p, acc) ==
  IF p.new = <<>> THEN [ out |-> p.out, new |-> <<>>, native |-> p.native ]
  ELSE LET x == __exit__(acc.self)
       IN  [ out |-> acc.out, new |-> <<x.self>>, native |-> p.native \o acc.native \o x.native ]

\* to_markdown(path): kind is what is at the path, ret what unhwp_to_markdown
\* answers.
to_markdown(eng, kind, ret) ==
  LET flags == _to_flags(RenderOptionsDefault)
      p == parse("unhwp_parse_file", flags,
                 IF flags.kind = "raise" THEN None ELSE EngineParse(eng, kind))
  IN  WithParse(p, IF p.new = <<>> THEN Closed(<<>>) ELSE markdown(p.new[1], ret))

\* to_markdown_with_cleanup looking at the preset it is given.
to_markdown_with_cleanup_Validates(eng, kind, cleanup_options, ret) ==
  IF cleanup_options # <<>> /\ cleanup_options[1].preset \notin {0, 1, 2}
  THEN [ out |-> Raise("ValueError"), new |-> <<>>, native |-> <<>> ]
  ELSE to_markdown(eng, kind, ret)

\* to_markdown_with_cleanup(path, cleanup_options)
to_markdown_with_cleanup(eng, kind, cleanup_options, ret) == to_markdown(eng, kind, ret)

\* extract_text(path)
extract_text(eng, kind, ret) ==
  LET flags == _to_flags(RenderOptionsDefault)
      p == parse("unhwp_parse_file", flags,
                 IF flags.kind = "raise" THEN None ELSE EngineParse(eng, kind))
  IN  WithParse(p, IF p.new = <<>> THEN Closed(<<>>) ELSE text(p.new[1], ret))

(***************************************************************************)
(* The state                                                               *)
(***************************************************************************)
VARIABLES
  results,   \* the ParseResult objects the caller holds, in order of creation
  gens,      \* the generators iter_images has made
  engine,    \* engine[h]: the document behind handle h, how often it was freed
  instances, \* the CleanupOptions instances constructed, in order
  threads,   \* threads[t]: where thread t stands inside a method of a shared object
  call,      \* the last call of the API: what was called, on what, its outcome
  arg        \* the last call's inputs

vars == <<results, gens, engine, instances, threads, call, arg>>

Call(op, obj, out, nat) == [op |-> op, obj |-> obj, out |-> out, native |-> nat]

NoArg == [none |-> TRUE]

\* The process is alive: it has not died inside the engine.
Alive == call.out.kind # "crash"

\* The engine's bookkeeping of a log of native calls: a parse that returned a
\* handle adds the document doc, wrapped by object owner; a free of a
\* document is counted.
RECURSIVE EngineApply(_, _, _, _)
EngineApply(eng, log, doc, owner) ==
  IF log = <<>> THEN eng
  ELSE LET c == Head(log)
           e == IF c.fn \in {"unhwp_parse_file", "unhwp_parse_bytes"} /\ c.ret # None
                THEN Append(eng, [res |-> doc, frees |-> 0, owner |-> owner])
                ELSE IF c.fn = "unhwp_free_document" /\ c.h \in DOMAIN eng
                THEN [eng EXCEPT ![c.h].frees = @ + 1]
                ELSE eng
       IN  EngineApply(e, Tail(log), doc, owner)

\* The document behind the handle of an object, as the engine sees it.
DocOf(self) == IF self._handle \in DOMAIN engine THEN engine[self._handle].res ELSE <<>>
IdsOf(doc) == [k \in 1..Len(doc) |-> k]
DataOf(doc) == [k \in 1..Len(doc) |-> ResourceData(doc, k)]

Init ==
  /\ results = <<>>
  /\ gens = <<>>
  /\ engine = <<>>
  /\ instances = <<>>
  /\ threads = <<>>
  /\ call = Call("none", 0, RetNone, <<>>)
  /\ arg = NoArg

\* What the engine is asked to choose for a parse of input of this kind: the
\* document it builds, when it builds one.
DocumentsAt(kind, docs) == IF kind = "valid" THEN docs ELSE {<<>>}

\* parse(path, render_options=...) and parse_bytes(data, render_options=...)
\* with what is parsed, the options and the document taken from the given
\* sets.
Parse(op, kinds, options, docs) ==
  \E kind \in kinds, opts \in options :
    \E doc \in DocumentsAt(kind, docs) :
      LET flags == _to_flags(Arg(opts, RenderOptionsDefault))
          fn == IF op = "parse" THEN "unhwp_parse_file" ELSE "unhwp_parse_bytes"
          r == parse(fn, flags, IF flags.kind = "raise" THEN None ELSE EngineParse(engine, kind))
          i == Len(results) + 1
      IN  /\ Len(engine) < MaxResults
          /\ results' = results \o r.new
          /\ engine' = EngineApply(engine, r.native, doc, i)
          /\ call' = Call(op, IF r.new = <<>> THEN 0 ELSE i,
                          IF r.new = <<>> THEN r.out ELSE RetObj(i), r.native)
          /\ arg' = [kind |-> kind, render_options |-> opts]
          /\ UNCHANGED <<gens, instances, threads>>

\* The options that fit the flags: no image prefix, markdown tables.
FlagOptions == {o \in RenderOptions : o.image_path_prefix = "" /\ o.table_fallback = 0}

\* RenderOptions with every flag off.
NoFlags == [RenderOptionsDefault EXCEPT !.escape_special_chars = FALSE]

ParseFile == Alive /\ Parse("parse", PathKinds, Opt(FlagOptions), {<<>>})
ParseBytes == Alive /\ Parse("parse_bytes", DataKinds, Opt(FlagOptions), {<<>>})

\* A method of object i ran with result r; a is what the engine answered.
Answered(op, i, r, a) ==
  /\ Alive
  /\ results' = [results EXCEPT ![i] = r.self]
  /\ engine' = EngineApply(engine, r.native, <<>>, 0)
  /\ call' = Call(op, i, r.out, r.native)
  /\ arg' = a
  /\ UNCHANGED <<gens, instances, threads>>

Method(op, i, r) == Answered(op, i, r, NoArg)

Close == \E i \in DOMAIN results : Method("close", i, close(results[i]))
Exit == \E i \in DOMAIN results : Method("__exit__", i, __exit__(results[i]))
Del == \E i \in DOMAIN results : Method("__del__", i, __del__(results[i]))
Enter == \E i \in DOMAIN results : Method("__enter__", i, __enter__(results[i]))

Markdown ==
  \E i \in DOMAIN results, ret \in StringReturns : Method("markdown", i, markdown(results[i], ret))
Text ==
  \E i \in DOMAIN results, ret \in StringReturns : Method("text", i, text(results[i], ret))
PlainText ==
  \E i \in DOMAIN results, ret \in StringReturns :
    Method("plain_text", i, plain_text(results[i], ret))
Json ==
  \E i \in DOMAIN results, ret \in StringReturns : Method("json", i, json(results[i], ret))
SectionCount ==
  \E i \in DOMAIN results, n \in CountReturns :
    Method("section_count", i, section_count(results[i], n))
ParagraphCount ==
  \E i \in DOMAIN results, n \in CountReturns :
    Method("paragraph_count", i, paragraph_count(results[i], n))
IsDistribution ==
  \E i \in DOMAIN results : Method("is_distribution", i, is_distribution(results[i]))
ImageCount ==
  \E i \in DOMAIN results, n \in CountReturns :
    Method("image_count", i, image_count(results[i], n))
Title ==
  \E i \in DOMAIN results, ret \in StringReturns : Method("title", i, title(results[i], ret))
Author ==
  \E i \in DOMAIN results, ret \in StringReturns : Method("author", i, author(results[i], ret))
Images ==
  \E i \in DOMAIN results, ret \in IdsReturns :
    LET doc == DocOf(results[i])
    IN  Answered("images", i, images(results[i], ret, IdsOf(doc), DataOf(doc)), [ret |-> ret])

\* The life of ParseResult objects: parsing, releasing, the accessors.
Next ==
  \/ ParseFile
  \/ ParseBytes
  \/ Close
  \/ Exit
  \/ Del
  \/ Enter
  \/ Markdown
  \/ Text
  \/ PlainText
  \/ Json
  \/ SectionCount
  \/ ParagraphCount
  \/ IsDistribution
  \/ ImageCount
  \/ Title
  \/ Author
  \/ Images

Spec == Init /\ [][Next]_vars

(***************************************************************************)
(* The resources of one document: images and iter_images.                  *)
(***************************************************************************)
\* parse of a document with resources; this specification follows one
\* ParseResult.
ParseDocument ==
  /\ Alive
  /\ results = <<>>
  /\ Parse("parse", {"valid"}, {<<NoFlags>>}, Documents)

\* iter_images() on object i: a generator is made, none of the body runs.
IterImages ==
  \E i \in DOMAIN results :
    /\ Alive
    /\ Len(gens) < MaxGens
    /\ gens' = Append(gens, Generator(i))
    /\ call' = Call("iter_images", i, RetGen(Len(gens) + 1), <<>>)
    /\ arg' = NoArg
    /\ UNCHANGED <<results, engine, instances, threads>>

\* What the engine answers to unhwp_get_resource_data with a NULL handle, for
\* each id: the engine refuses (NULL), unless the process dies.
NullHandleData(ids) == [k \in {ids[n] : n \in DOMAIN ids} |-> [ptr |-> None, len |-> 0]]

\* What unhwp_get_resource_ids can answer to generator g: it is asked only
\* when the body starts on an open object.
IdsReturnsAt(g) ==
  IF g.pc = "start" /\ ~results[g.obj]._closed THEN IdsReturns ELSE {[ptr |-> None, mem |-> ""]}

\* next() on generator j.  When the object was closed while the generator was
\* suspended, the loop calls the engine with self._handle = None.
GenNext ==
  \E j \in DOMAIN gens :
    \E ret \in IdsReturnsAt(gens[j]), fault \in BOOLEAN :
      LET g == gens[j]
          self == results[g.obj]
          doc == DocOf(self)
          data == IF self._handle = None THEN NullHandleData(g.resource_ids) ELSE DataOf(doc)
          r == iter_images(self, g, ret, IdsOf(doc), data)
          null == self._handle = None /\ r.native # <<>>
      IN  /\ Alive
          /\ fault => null
          /\ gens' = IF fault THEN gens ELSE [gens EXCEPT ![j] = r.gen]
          /\ call' = IF fault THEN Call("next", g.obj, Crash, <<Head(r.native)>>)
                     ELSE Call("next", g.obj, r.out, r.native)
          /\ arg' = [gen |-> j]
          /\ UNCHANGED <<results, engine, instances, threads>>

NextImages ==
  \/ ParseDocument
  \/ Close
  \/ Images
  \/ IterImages
  \/ GenNext

SpecImages == Init /\ [][NextImages]_vars

(***************************************************************************)
(* The public functions.                                                   *)
(***************************************************************************)
ParseFileWith == Alive /\ Parse("parse", PathKinds, Opt(RenderOptions), {<<>>})
ParseBytesWith == Alive /\ Parse("parse_bytes", DataKinds, Opt(RenderOptions), {<<>>})

\* The convenience functions: the ParseResult they make is theirs alone.
Convenience(op, r, kind, kw, ret) ==
  /\ Len(engine) < MaxResults
  /\ engine' = EngineApply(engine, r.native, <<>>, 0)
  /\ call' = Call(op, 0, r.out, r.native)
  /\ arg' = [kind |-> kind, cleanup_options |-> kw, ret |-> ret]
  /\ UNCHANGED <<results, gens, instances, threads>>

\* What unhwp_to_markdown / unhwp_to_text can answer inside a convenience
\* function: it is asked only for a valid input.
StringReturnsAt(kind) == IF kind = "valid" THEN StringReturns ELSE {[ptr |-> None, mem |-> ""]}

ToMarkdown ==
  \E kind \in PathKinds :
    \E ret \in StringReturnsAt(kind) :
      Alive /\ Convenience("to_markdown", to_markdown(engine, kind, ret), kind, <<>>, ret)

\* to_markdown_with_cleanup(path) and
\* to_markdown_with_cleanup(path, CleanupOptions(**kw))
ToMarkdownWithCleanup ==
  \E kind \in PathKinds, kw \in Opt(CleanupKwargs) :
    \E ret \in StringReturnsAt(kind) :
      LET cleanup_options == IF kw = <<>> THEN <<>> ELSE <<CleanupOptions__init__(kw[1])>>
      IN  Alive /\ Convenience("to_markdown_with_cleanup",
                      to_markdown_with_cleanup(engine, kind, cleanup_options, ret),
                      kind, cleanup_options, ret)

ExtractText ==
  \E kind \in PathKinds :
    \E ret \in StringReturnsAt(kind) :
      Alive /\ Convenience("extract_text", extract_text(engine, kind, ret), kind, <<>>, ret)

NextApi ==
  \/ ParseFileWith
  \/ ParseBytesWith
  \/ ToMarkdown
  \/ ToMarkdownWithCleanup
  \/ ExtractText

SpecApi == Init /\ [][NextApi]_vars

(***************************************************************************)
(* Constructing CleanupOptions.                                            *)
(***************************************************************************)
Made(op, inst, kw) ==
  /\ instances' = Append(instances, inst)
  /\ call' = Call(op, 0, RetNone, <<>>)
  /\ arg' = kw
  /\ UNCHANGED <<results, gens, engine, threads>>

Room == Len(instances) < MaxInstances

Construct ==
  \E kw \in CleanupKwargs : Room /\ Made("CleanupOptions", CleanupOptions__init__(kw), kw)
Minimal == Room /\ Made("minimal", minimal, NoArg)
Default == Room /\ Made("default", default, NoArg)
Aggressive == Room /\ Made("aggressive", aggressive, NoArg)
Disabled == Room /\ Made("disabled", disabled, NoArg)

NextCleanup ==
  \/ Construct
  \/ Minimal
  \/ Default
  \/ Aggressive
  \/ Disabled

SpecCleanup == Init /\ [][NextCleanup]_vars

(***************************************************************************)
(* detect_format                                                           *)
(***************************************************************************)
\* A file name is its parts between the dots: <<"a", "hwp">> is "a.hwp",
\* <<"", "hwp">> is ".hwp", <<"a", "">> is "a.".
Tokens == {"", "a", "txt", "hwp", "HWP", "hwpx", "HwpX"}
MaxParts == 3
Names == SeqsUpTo(Tokens, MaxParts) \ {<<>>}

\* What is at a path: nothing, or a file with this content.
FileKinds == {"missing", "empty", "text", "hwp5", "hwpx"}

\* len(s)
len(tok) ==
  CASE tok = "" -> 0
    [] tok = "a" -> 1
    [] tok \in {"txt", "hwp", "HWP"} -> 3
    [] OTHER -> 4

\* len(name) for a name of these parts: the parts and the dots between them.
RECURSIVE NameLen(_)
NameLen(parts) ==
  IF parts = <<>> THEN 0
  ELSE IF Len(parts) = 1 THEN len(parts[1])
  ELSE len(Head(parts)) + 1 + NameLen(Tail(parts))

\* The suffix compared as it is spelled.
lower_Identity(tok) == tok

\* str.lower
lower(tok) ==
  CASE tok = "HWP" -> "hwp"
    [] tok = "HwpX" -> "hwpx"
    [] OTHER -> tok

\* PurePath.suffix: i = name.rfind("."); the suffix is name[i:] when
\* 0 < i < len(name) - 1, and "" otherwise.  The suffix is given by its part
\* after the dot, <<>> when there is none.
suffix(name) ==
  LET front == SubSeq(name, 1, Len(name) - 1)
      i == IF Len(name) < 2 THEN -1 ELSE NameLen(front)
  IN  IF 0 < i /\ i < NameLen(name) - 1 THEN <<name[Len(name)]>> ELSE <<>>

\* Path.exists
exists(kind) == kind # "missing"

\* detect_format(path)
detect_format(name, kind) ==
  IF ~exists(kind) THEN RetInt(FORMAT_UNKNOWN)
  ELSE LET ext == IF suffix(name) = <<>> THEN <<>> ELSE <<lower(suffix(name)[1])>>
       IN  IF ext = <<"hwp">> THEN RetInt(FORMAT_HWP5)
           ELSE IF ext = <<"hwpx">> THEN RetInt(FORMAT_HWPX)
           ELSE RetInt(FORMAT_UNKNOWN)

\* The call to come is detect_format(path) for a path with this name and
\* this at it.
InitDetect ==
  /\ results = <<>>
  /\ gens = <<>>
  /\ engine = <<>>
  /\ instances = <<>>
  /\ threads = <<>>
  /\ call = Call("none", 0, RetNone, <<>>)
  /\ arg \in [name : Names, kind : FileKinds]

DetectFormat ==
  /\ call.op = "none"
  /\ call' = Call("detect_format", 0, detect_format(arg.name, arg.kind), <<>>)
  /\ UNCHANGED <<results, gens, engine, instances, threads, arg>>

SpecDetect == InitDetect /\ [][DetectFormat]_vars

(***************************************************************************)
(* The claims                                                              *)
(***************************************************************************)
ReleaseOps == {"close", "__exit__", "__del__"}
AccessorOps ==
  { "markdown", "text", "plain_text", "json", "section_count", "paragraph_count",
    "image_count", "title", "author", "is_distribution", "images" }

\* The last call was made on an object that was closed already: no accessor
\* closes or reopens an object.
OnClosed == call.obj \in DOMAIN results /\ results[call.obj]._closed

\* C1: once a ParseResult is closed, every accessor fails with the
\* InvalidState error (ValueError, "ParseResult has been closed") and
\* dispatches no native call; the same for the first next() of iter_images.
C1_ClosedAccessorsFail ==
  /\ (call.op \in AccessorOps /\ OnClosed)
       => (call.out = Raise("ValueError") /\ call.native = <<>>)
  /\ \A j \in DOMAIN gens :
       (call.op = "next" /\ arg.gen = j /\ gens[j].resource_ids = <<>> /\ OnClosed)
         => (call.out.kind = "raise" /\ call.native = <<>>)

\* C2: release is idempotent.  No close, __exit__ or __del__ raises; a
\* document is freed at most once, and exactly once when its ParseResult is
\* closed; a closed object holds no handle, an open one its own; and a closed
\* object stays closed.
C2_ReleaseIdempotent ==
  /\ [](/\ call.op \in ReleaseOps => call.out = RetNone
        /\ \A h \in DOMAIN engine :
             LET o == engine[h].owner
             IN  /\ engine[h].frees <= 1
                 /\ o \in DOMAIN results
                 /\ results[o]._closed <=> engine[h].frees = 1
                 /\ results[o]._closed => results[o]._handle = None
                 /\ ~results[o]._closed => results[o]._handle = h)
  /\ [][\A i \in DOMAIN results :
          results[i]._closed => (results'[i]._closed /\ results'[i]._handle = None)]_vars

\* C2: a release of an object that was released before did nothing.
C2_Witness ==
  /\ call.op \in ReleaseOps /\ OnClosed /\ call.native = <<>>
  /\ \E h \in DOMAIN engine : engine[h].owner = call.obj /\ engine[h].frees = 1

ParseOps == {"parse", "parse_bytes"}

\* C3: parse and parse_bytes either return an open ParseResult around the
\* non-null handle the engine just returned, or raise and make no object: the
\* objects are exactly the documents the engine handed out, and no object
\* that is open holds a null handle.
C3_ParseOpenOrRaise ==
  /\ Len(results) = Len(engine)
  /\ \A i \in DOMAIN results : engine[i].owner = i /\ (results[i]._closed \/ results[i]._handle = i)
  /\ \A i \in DOMAIN results : ~results[i]._closed => results[i]._handle # None
  /\ call.op \in ParseOps =>
       \/ /\ call.out.kind = "raise"
          /\ call.obj = 0
          /\ \A k \in DOMAIN call.native : call.native[k].ret = None
       \/ /\ call.out = RetObj(Len(results))
          /\ call.obj = Len(results)
          /\ ~results[call.obj]._closed
          /\ results[call.obj]._handle # None
          /\ call.native = << NativeCall(call.native[1].fn, 0, 0, results[call.obj]._handle) >>
          /\ engine[results[call.obj]._handle].frees = 0

\* C3: a parse failed with ParseError after an earlier one had returned an
\* object, and made none.
C3_Witness ==
  /\ call.op \in ParseOps /\ call.out = Raise("ParseError")
  /\ Len(results) = 1 /\ ~results[1]._closed

\* The native functions that return a buffer to release, and those that
\* release one.
Allocators ==
  { "unhwp_to_markdown", "unhwp_to_text", "unhwp_plain_text", "unhwp_to_json",
    "unhwp_get_title", "unhwp_get_author", "unhwp_get_resource_ids",
    "unhwp_get_resource_data" }
Releasers == {"unhwp_free_string", "unhwp_free_bytes"}

Releases(log, ptr) == {k \in DOMAIN log : log[k].fn \in Releasers /\ log[k].arg = ptr}

\* C4: every non-null pointer the engine returned to an accessor is released
\* exactly once by that accessor.
C4_BuffersReleasedOnce ==
  \A k \in DOMAIN call.native :
    (call.native[k].fn \in Allocators /\ call.native[k].ret # None)
      => Cardinality(Releases(call.native, call.native[k].ret)) = 1

\* The ids of the first n resources of a document whose extraction gives data.
Extracted(doc, n) ==
  LET Gives(k) == doc[k] = "data"
  IN  SelectSeq([k \in 1..n |-> k], Gives)

\* C5: images returns exactly the resources whose extraction gave data, in
\* the order of the id list, whichever of the others failed; a generator of
\* iter_images on an open object has yielded exactly those among the ids it
\* has passed, and is done only when it has passed them all.
C5_SkipsFailedResources ==
  /\ (call.op = "images" /\ ~OnClosed /\ arg.ret.ptr # None /\ arg.ret.mem = "ids")
       => call.out = RetList(Extracted(DocOf(results[call.obj]), Len(DocOf(results[call.obj]))))
  /\ \A j \in DOMAIN gens :
       LET g == gens[j]
           doc == DocOf(results[g.obj])
       IN  (~results[g.obj]._closed /\ g.resource_ids # <<>>)
             => /\ g.resource_ids = IdsOf(doc)
                /\ g.k \in 1..(Len(doc) + 1)
                /\ g.yielded = Extracted(doc, g.k - 1)
                /\ g.pc = "done" => g.k = Len(doc) + 1
                /\ g.pc = "loop" => doc[g.k - 1] = "data"

\* C5: the first resource failed and the second was returned, by images and
\* by a generator that ran to its end.
C5_Witness ==
  /\ call.op = "images" /\ call.out = RetList(<<2>>)
  /\ DocOf(results[call.obj]) = <<"null", "data">>
  /\ \E j \in DOMAIN gens : gens[j].pc = "done" /\ gens[j].yielded = <<2>>

\* The spellings of an extension.
Spellings(ext) == IF ext = "hwp" THEN {"hwp", "HWP"} ELSE {"hwpx", "HwpX"}

\* The name ends in a dot and the extension, with something before the dot.
EndsWith(name, ext) ==
  /\ Len(name) >= 2
  /\ name[Len(name)] \in Spellings(ext)
  /\ \E k \in 1..(Len(name) - 1) : name[k] # "" \/ k > 1

Representable(o) == [o EXCEPT !.image_path_prefix = "", !.table_fallback = 0]

\* C7: render options whose table_fallback is not markdown or whose
\* image_path_prefix is not empty are never silently dropped by parse and
\* parse_bytes: when an object is returned, what it keeps of the options
\* differs from what it would keep without the field.
C7_FieldsNotDiscarded ==
  (/\ call.op \in ParseOps
   /\ arg.render_options # <<>>
   /\ arg.render_options[1] # Representable(arg.render_options[1])
   /\ call.out.kind = "obj")
    => results[call.obj]._flags # _to_flags(Representable(arg.render_options[1])).num

\* C8: parse of a path that does not exist fails with the FileNotFound error.
C8_MissingPathIsFileNotFound ==
  (call.op = "parse" /\ arg.kind = "missing") => call.out = Raise("FileNotFoundError")

Last(s) == s[Len(s)]

\* C9: minimal(), default() and aggressive() give enabled=True with preset 0,
\* 1 and 2, and disabled() gives enabled=False, whatever was constructed
\* before.
C9_Factories ==
  /\ call.op = "minimal" => (Last(instances).enabled /\ Last(instances).preset = 0)
  /\ call.op = "default" => (Last(instances).enabled /\ Last(instances).preset = 1)
  /\ call.op = "aggressive" => (Last(instances).enabled /\ Last(instances).preset = 2)
  /\ call.op = "disabled" => ~Last(instances).enabled

\* C9: disabled() was called after CleanupOptions(enabled=True, preset=2) had
\* been constructed.
C9_Witness ==
  /\ Len(instances) = 2 /\ call.op = "disabled"
  /\ instances[1].enabled /\ instances[1].preset = 2
  /\ ~instances[2].enabled

\* C10: a CleanupOptions whose preset is outside {0, 1, 2} is rejected with
\* InvalidArgument, at the latest when it is passed to
\* to_markdown_with_cleanup.
C10_InvalidPresetRejected ==
  (/\ call.op = "to_markdown_with_cleanup"
   /\ arg.cleanup_options # <<>>
   /\ arg.cleanup_options[1].preset \notin {0, 1, 2})
    => call.out = Raise("InvalidArgument")

(***************************************************************************)
(* RenderOptions._to_flags on its own: the options are drawn first, then   *)
(* the method is applied to them once.                                     *)
(***************************************************************************)
InitFlags ==
  /\ results = <<>>
  /\ gens = <<>>
  /\ engine = <<>>
  /\ instances = <<>>
  /\ threads = <<>>
  /\ call = Call("none", 0, RetNone, <<>>)
  /\ arg \in [render_options : RenderOptions]

ToFlags ==
  /\ call.op = "none"
  /\ call' = Call("_to_flags", 0, _to_flags(arg.render_options), <<>>)
  /\ UNCHANGED <<results, gens, engine, instances, threads, arg>>

SpecFlags == InitFlags /\ [][ToFlags]_vars

\* C11: _to_flags is total and pure: for every combination of the three flag
\* fields it returns an integer, never raises, reads only constants the
\* native module defines, and the mask is empty exactly when no flag field
\* is set.
C11_ToFlagsTotal ==
  call.op = "_to_flags" =>
    LET o == arg.render_options
        names == FlagNames(o)
    IN  /\ call.out.kind = "int"
        /\ \A k \in DOMAIN names : HasAttr(names[k])
        /\ call.out.num = 0 <=>
             ~(o.include_frontmatter \/ o.escape_special_chars \/ o.preserve_line_breaks)

C13_AccessorsChangeNothing ==
  [][/\ (/\ call'.op \in AccessorOps \cup {"iter_images", "next"}
         /\ call'.obj \in DOMAIN results
         /\ ~results[call'.obj]._closed)
        => /\ results' = results
           /\ engine' = engine
           /\ (call'.op = "markdown" /\ call'.out.kind # "crash")
                => /\ call'.native # <<>>
                   /\ call'.native[1].fn = "unhwp_to_markdown"
                   /\ call'.native[1].h = results[call'.obj]._handle
                   /\ call'.native[1].arg = results[call'.obj]._flags
     /\ (call'.op \in ParseOps /\ call'.out.kind = "obj")
        => /\ results' = Append(results, results'[call'.obj])
           /\ results'[call'.obj]._flags
                = _to_flags(Arg(arg'.render_options, RenderOptionsDefault)).num]_vars

\* C13: markdown raised RenderError on an object that an earlier parse made,
\* and the object is open with its handle.
C13_Witness ==
  /\ call.op = "markdown" /\ call.out = Raise("RenderError")
  /\ ~results[call.obj]._closed
  /\ results[call.obj]._handle = call.native[1].h
  /\ Len(results) = 2

\* The places in a log of native calls where a document was obtained, and
\* where one was released.
Obtained(log) ==
  {k \in DOMAIN log : log[k].fn \in {"unhwp_parse_file", "unhwp_parse_bytes"} /\ log[k].ret # None}
Freed(log) == {k \in DOMAIN log : log[k].fn = "unhwp_free_document"}

Threads == {1, 2}

\* The shared object as parse made it from a valid file.
InitThreads ==
  /\ results = << ParseResult__init__(EngineParse(<<>>, "valid"), _to_flags(NoFlags).num) >>
  /\ gens = <<>>
  /\ engine = << [res |-> <<>>, frees |-> 0, owner |-> Len(results)] >>
  /\ instances = <<>>
  /\ threads = [t \in Threads |-> "idle"]
  /\ call = Call("parse", Len(results), RetObj(Len(results)),
                 << NativeCall("unhwp_parse_file", 0, 0, results[Len(results)]._handle) >>)
  /\ arg = [kind |-> "valid", render_options |-> <<NoFlags>>]

\* The handle is not one the engine still holds: it was freed, or it is the
\* None that close left.
Stale(h) == IF h \in DOMAIN engine THEN engine[h].frees > 0 ELSE TRUE

\* A step of thread t inside op, after which it stands at pc.
Step(t, pc, op, out, nat) ==
  /\ threads' = [threads EXCEPT ![t] = pc]
  /\ engine' = EngineApply(engine, nat, <<>>, 0)
  /\ call' = Call(op, Len(results), out, nat)
  /\ arg' = [thread |-> t]
  /\ UNCHANGED <<gens, instances>>

\* close, line 177: if not self._closed and self._handle
CloseCheck ==
  \E t \in Threads :
    LET self == results[Len(results)]
    IN  /\ Alive /\ threads[t] = "idle"
        /\ Step(t, IF ~self._closed /\ self._handle # None THEN "free" ELSE "idle",
                "close", RetNone, <<>>)
        /\ UNCHANGED results

\* close, line 178: native.lib.unhwp_free_document(self._handle); freeing a
\* document a second time is undefined in the engine: it returns or the
\* process dies.
CloseFree ==
  \E t \in Threads, crash \in BOOLEAN :
    LET self == results[Len(results)]
    IN  /\ Alive /\ threads[t] = "free"
        /\ crash => Stale(self._handle)
        /\ Step(t, "clear", "close", IF crash THEN Crash ELSE RetNone,
                << NativeCall("unhwp_free_document", self._handle, 0, 0) >>)
        /\ UNCHANGED results

\* close, line 179: self._handle = None
CloseClear ==
  \E t \in Threads :
    /\ Alive /\ threads[t] = "clear"
    /\ Step(t, "mark", "close", RetNone, <<>>)
    /\ results' = [results EXCEPT ![Len(results)]._handle = None]

\* close, line 180: self._closed = True
CloseMark ==
  \E t \in Threads :
    /\ Alive /\ threads[t] = "mark"
    /\ Step(t, "idle", "close", RetNone, <<>>)
    /\ results' = [results EXCEPT ![Len(results)]._closed = TRUE]

\* markdown, line 189: self._ensure_open()
MarkdownCheck ==
  \E t \in Threads :
    LET self == results[Len(results)]
    IN  /\ Alive /\ threads[t] = "idle"
        /\ IF _ensure_open(self)
           THEN Step(t, "idle", "markdown", Closed(self).out, <<>>)
           ELSE Step(t, "render", "markdown", RetNone, <<>>)
        /\ UNCHANGED results

\* markdown, lines 190-196: the native call with self._handle as it is now,
\* and the conversion.  Called with a stale handle the engine answers NULL
\* or the process dies.
MarkdownRender ==
  \E t \in Threads, crash \in BOOLEAN :
    LET self == results[Len(results)]
    IN  \E ret \in IF Stale(self._handle) THEN {[ptr |-> None, mem |-> ""]} ELSE StringReturns :
          LET r == RenderedString(self,
                     NativeCall("unhwp_to_markdown", self._handle, self._flags, ret.ptr), ret)
          IN  /\ Alive /\ threads[t] = "render"
              /\ crash => Stale(self._handle)
              /\ Step(t, "idle", "markdown", IF crash THEN Crash ELSE r.out,
                      IF crash THEN <<Head(r.native)>> ELSE r.native)
              /\ UNCHANGED results

NextThreads ==
  \/ CloseCheck
  \/ CloseFree
  \/ CloseClear
  \/ CloseMark
  \/ MarkdownCheck
  \/ MarkdownRender

SpecThreads == InitThreads /\ [][NextThreads]_vars

\* C15: release is atomic with respect to accessors and to other releases:
\* in every interleaving of two threads on one ParseResult no document is
\* freed twice, and unhwp_to_markdown is never called with a handle that was
\* freed already or cleared.
C15_ReleaseAtomic ==
  /\ \A h \in DOMAIN engine : engine[h].frees <= 1
  /\ (call.op = "markdown" /\ call.native # <<>>)
       => (call.native[1].h \in DOMAIN engine /\ engine[call.native[1].h].frees = 0)

\* C16: a generator of iter_images never calls the engine on a released
\* handle: a next() made after the object was closed dispatches no native
\* call and fails with the InvalidState error (ValueError); the end of an
\* exhausted generator, StopIteration, is let pass.
C16_GeneratorRefusesAfterClose ==
  (call.op = "next" /\ results[call.obj]._closed)
    => /\ call.native = <<>>
       /\ call.out \in {Raise("ValueError"), Raise("StopIteration")}

=============================================================================
